---- MODULE Spec2Model ----
(***************************************************************************)
(* svg_grid_organizer.py: get_svg_dimensions, create_svg_grid and main.    *)
(*                                                                         *)
(* Three specifications over one set of variables:                         *)
(*   SpecDims  get_svg_dimensions called on one file                       *)
(*   SpecGrid  create_svg_grid called with any grid shape and file list    *)
(*   SpecMain  main: argument scan, trimming, the call of create_svg_grid  *)
(* A path is a record [stem, ext]; the file system is the function disk    *)
(* from the existing paths to their content.  Numbers that the script      *)
(* holds as Python floats are binary64 values, computed bit-exactly.       *)
(***************************************************************************)
EXTENDS Integers, Sequences, FiniteSets, TLC

VARIABLES
    disk,          \* existing paths -> file content
    svg_path,      \* get_svg_dimensions: its argument
    dims,          \* get_svg_dimensions: the returned pair, <<>> before the return
    dpc,           \* get_svg_dimensions: position of the call
    svg_files,     \* main's list / create_svg_grid's argument
    output_file,   \* main's output path / create_svg_grid's argument
    rows, cols, cell_width, cell_height, padding,
    idx,           \* create_svg_grid: loop index
    svg_content,   \* create_svg_grid: the document built so far, element by element
    gpc,           \* create_svg_grid: position
    io,            \* file operations so far: reads of inputs (with the loop index
                   \* they were made at), writes of the output
    argv,          \* main: sys.argv[1:]
    arg_i,         \* main: position of the argument loop
    mpc,           \* main: position
    exit_status    \* process exit status, -1 while running

vars == <<disk, svg_path, dims, dpc, svg_files, output_file, rows, cols, cell_width,
          cell_height, padding, idx, svg_content, gpc, io, argv, arg_i, mpc, exit_status>>
dimVars == <<svg_path, dims, dpc>>
gridVars == <<rows, cols, cell_width, cell_height, padding, idx, svg_content, gpc, io>>
mainVars == <<argv, arg_i, mpc, exit_status>>

(* ---------------------------------------------------------------------- *)
(* bounds of the model                                                     *)
(* ---------------------------------------------------------------------- *)
MaxLen == 3        \* longest attribute string probed in SpecDims
MaxFiles == 3      \* longest svg_files list given to create_svg_grid in SpecGrid
MaxRows == 2
MaxCols == 2
MaxArgs == 10      \* longest argument list given to main
MaxExtra == 2      \* most arguments that are not existing .svg files

(* ---------------------------------------------------------------------- *)
(* Python float                                                            *)
(* ---------------------------------------------------------------------- *)
(* binary64 arithmetic on non-negative finite values.  A value is         *)
(* [m |-> mantissa, e |-> exponent] = m * 2^e, with the mantissa a        *)
(* little-endian sequence of NLimbs limbs of LimbBits bits and            *)
(* 2^52 <= m < 2^53, or m = 0 and e = 0 for zero.                         *)
LimbBits == 14
NLimbs == 4
MantBits == 53
Base == 2 ^ LimbBits

BigZero(n) == [i \in 1..n |-> 0]
RECURSIVE BigOfInt(_, _)
BigOfInt(x, n) == IF n = 0 THEN <<>> ELSE <<x % Base>> \o BigOfInt(x \div Base, n - 1)
BigIsZero(a) == \A i \in 1..Len(a) : a[i] = 0
BigPad(a, n) == [i \in 1..n |-> IF i <= Len(a) THEN a[i] ELSE 0]

RECURSIVE BigCmpAt(_, _, _)
BigCmpAt(a, b, i) ==
    IF i = 0 THEN 0
    ELSE IF a[i] > b[i] THEN 1
    ELSE IF a[i] < b[i] THEN -1
    ELSE BigCmpAt(a, b, i - 1)
BigCmp(a, b) == BigCmpAt(a, b, Len(a))

RECURSIVE BigSubAt(_, _, _, _)
BigSubAt(a, b, i, borrow) ==
    IF i > Len(a) THEN <<>>
    ELSE LET d == a[i] - b[i] - borrow
         IN  IF d < 0 THEN <<d + Base>> \o BigSubAt(a, b, i + 1, 1)
             ELSE <<d>> \o BigSubAt(a, b, i + 1, 0)
BigSub(a, b) == BigSubAt(a, b, 1, 0)

RECURSIVE BigAddAt(_, _, _, _)
BigAddAt(a, b, i, carry) ==
    IF i > Len(a) THEN <<>>
    ELSE LET s == a[i] + b[i] + carry
         IN  <<s % Base>> \o BigAddAt(a, b, i + 1, s \div Base)
BigAdd(a, b) == BigAddAt(a, b, 1, 0)
BigInc(a) == BigAddAt(a, BigZero(Len(a)), 1, 1)

RECURSIVE BigMulLimbAt(_, _, _, _)
BigMulLimbAt(a, k, i, carry) ==
    IF i > Len(a) THEN <<carry>>
    ELSE LET p == a[i] * k + carry
         IN  <<p % Base>> \o BigMulLimbAt(a, k, i + 1, p \div Base)

RECURSIVE BigMulAt(_, _, _)
BigMulAt(a, b, j) ==
    IF j > Len(b) THEN BigZero(Len(a) + Len(b))
    ELSE BigAdd(BigPad(BigZero(j - 1) \o BigMulLimbAt(a, b[j], 1, 0), Len(a) + Len(b)),
                BigMulAt(a, b, j + 1))
BigMul(a, b) == BigMulAt(a, b, 1)

RECURSIVE IntBitLen(_)
IntBitLen(x) == IF x = 0 THEN 0 ELSE 1 + IntBitLen(x \div 2)
RECURSIVE BigBitLenAt(_, _)
BigBitLenAt(a, i) ==
    IF i = 0 THEN 0
    ELSE IF a[i] # 0 THEN (i - 1) * LimbBits + IntBitLen(a[i])
    ELSE BigBitLenAt(a, i - 1)
BigBitLen(a) == BigBitLenAt(a, Len(a))

BigLimb(a, i) == IF i >= 1 /\ i <= Len(a) THEN a[i] ELSE 0
BigShr(a, s) ==
    LET ls == s \div LimbBits
        bs == s % LimbBits
    IN  [i \in 1..Len(a) |->
            (BigLimb(a, i + ls) \div (2 ^ bs))
            + (BigLimb(a, i + ls + 1) % (2 ^ bs)) * (2 ^ (LimbBits - bs))]
BigBit(a, k) == (BigLimb(a, (k \div LimbBits) + 1) \div (2 ^ (k % LimbBits))) % 2
BigLowZero(a, s) ==
    /\ \A i \in 1..Len(a) : i <= s \div LimbBits => a[i] = 0
    /\ BigLimb(a, (s \div LimbBits) + 1) % (2 ^ (s % LimbBits)) = 0

FZero == [m |-> BigZero(NLimbs), e |-> 0]
FIsZero(a) == BigIsZero(a.m)

(* round-to-nearest-even of q * 2^e (plus a sticky fraction below q),   *)
(* q holding more than MantBits significant bits                        *)
RoundPack(q, e, sticky) ==
    LET s    == BigBitLen(q) - MantBits
        mant == BigShr(q, s)
        rb   == BigBit(q, s - 1) = 1
        st   == sticky \/ ~BigLowZero(q, s - 1)
        up   == rb /\ (st \/ mant[1] % 2 = 1)
        m1   == IF up THEN BigInc(mant) ELSE mant
    IN  IF BigBitLen(m1) > MantBits
        THEN [m |-> SubSeq(BigShr(m1, 1), 1, NLimbs), e |-> e + s + 1]
        ELSE [m |-> SubSeq(m1, 1, NLimbs), e |-> e + s]

RECURSIVE RatioLimbs(_, _, _, _)
RatioLimbs(q, r, d, k) ==
    IF BigBitLen(q) > MantBits THEN RoundPack(q, 0 - k * LimbBits, r # 0)
    ELSE RatioLimbs(<<(r * Base) \div d>> \o q, (r * Base) % d, d, k + 1)
(* the double nearest to n / d, for naturals n < Base^2 and 0 < d < 2^16 *)
FromRatio(n, d) ==
    IF n = 0 THEN FZero
    ELSE RatioLimbs(BigOfInt(n \div d, 2), n % d, d, 0)
FromInt(n) == FromRatio(n, 1)

FCmp(a, b) ==
    IF FIsZero(a) THEN (IF FIsZero(b) THEN 0 ELSE -1)
    ELSE IF FIsZero(b) THEN 1
    ELSE IF a.e > b.e THEN 1
    ELSE IF a.e < b.e THEN -1
    ELSE BigCmp(a.m, b.m)
FMin(a, b) == IF FCmp(b, a) < 0 THEN b ELSE a

(* one digit of the long division: the largest qhat with d * qhat <= r5 *)
RECURSIVE DivDigit(_, _, _)
DivDigit(r5, d, qhat) ==
    LET p == BigMulLimbAt(d, qhat, 1, 0)
    IN  IF BigCmp(p, r5) > 0 THEN DivDigit(r5, d, qhat - 1)
        ELSE <<qhat, SubSeq(BigSub(r5, p), 1, Len(d))>>
RECURSIVE DivLimbs(_, _, _, _)
DivLimbs(q, r, d, k) ==
    IF k = 0 THEN <<q, r>>
    ELSE LET r5   == <<0>> \o r
             top  == r[Len(r)] * Base + r[Len(r) - 1]
             est  == top \div d[Len(d)]
             step == DivDigit(r5, d, IF est > Base - 1 THEN Base - 1 ELSE est)
         IN  DivLimbs(<<step[1]>> \o q, step[2], d, k - 1)
(* a / b, b # 0: both mantissas are scaled to fill their limbs, then      *)
(* floor(ma * Base^NLimbs / mb) is rounded                                *)
FDiv(a, b) ==
    IF FIsZero(a) THEN FZero
    ELSE LET fill == 2 ^ (NLimbs * LimbBits - MantBits)
             n    == SubSeq(BigMulLimbAt(a.m, fill, 1, 0), 1, NLimbs)
             d    == SubSeq(BigMulLimbAt(b.m, fill, 1, 0), 1, NLimbs)
             ge   == BigCmp(n, d) >= 0
             qr   == DivLimbs(<<IF ge THEN 1 ELSE 0>>, IF ge THEN BigSub(n, d) ELSE n,
                              d, NLimbs)
         IN  RoundPack(qr[1], a.e - b.e - NLimbs * LimbBits, ~BigIsZero(qr[2]))
FMul(a, b) ==
    IF FIsZero(a) \/ FIsZero(b) THEN FZero
    ELSE RoundPack(BigMul(a.m, b.m), a.e + b.e, FALSE)
(* the next double above a *)
FNextUp(a) ==
    LET m1 == BigInc(a.m)
    IN  IF BigBitLen(m1) > MantBits THEN [m |-> BigShr(m1, 1), e |-> a.e + 1]
        ELSE [m |-> m1, e |-> a.e]

(* ---------------------------------------------------------------------- *)
(* strings and files                                                       *)
(* ---------------------------------------------------------------------- *)
(* A string is a sequence of characters.  "sup2" is the superscript two,   *)
(* a character for which str.isdigit() holds and that float() rejects.     *)
DecimalDigits == {"0", "1", "2", "3", "4", "5", "6", "7", "8", "9"}
isdigit(x) == x \in DecimalDigits \cup {"sup2"}
DigitVal(x) ==
    CASE x = "0" -> 0 [] x = "1" -> 1 [] x = "2" -> 2 [] x = "3" -> 3 [] x = "4" -> 4
      [] x = "5" -> 5 [] x = "6" -> 6 [] x = "7" -> 7 [] x = "8" -> 8 [] x = "9" -> 9

(* ''.join(filter(lambda x: x.isdigit() or x == '.', s)) *)
IsKept(x) == isdigit(x) \/ x = "."
StripUnits(s) == SelectSeq(s, IsKept)

IsDot(x) == x = "."
IsNotDot(x) == x # "."
(* float(s) raises ValueError *)
FloatRaises(s) ==
    \/ Len(SelectSeq(s, IsDot)) > 1
    \/ Len(SelectSeq(s, IsNotDot)) = 0
    \/ \E i \in 1..Len(s) : s[i] # "." /\ s[i] \notin DecimalDigits

RECURSIVE DigitsValue(_)
DigitsValue(s) ==
    IF s = <<>> THEN 0 ELSE 10 * DigitsValue(SubSeq(s, 1, Len(s) - 1)) + DigitVal(s[Len(s)])
RECURSIVE FractionDigits(_)
FractionDigits(s) ==
    IF s = <<>> \/ s[Len(s)] = "." THEN 0 ELSE 1 + FractionDigits(SubSeq(s, 1, Len(s) - 1))
(* float(s) for a decimal literal s *)
float(s) ==
    LET k == IF Len(SelectSeq(s, IsDot)) = 0 THEN 0 ELSE FractionDigits(s)
    IN  FromRatio(DigitsValue(SelectSeq(s, IsNotDot)), 10 ^ k)

F100 == FromInt(100)

(* An attribute of the root element: absent, or present with a value. *)
NoAttr == [present |-> FALSE, value |-> <<>>]
Attr(s) == [present |-> TRUE, value |-> s]
(* root.get(name, '100') *)
RootGet(a) == IF a.present THEN a.value ELSE <<"1", "0", "0">>

(* A file: whether it can be opened and read, whether it is well-formed   *)
(* XML, the root's width and height, and its top-level child elements.    *)
File(r, wf, w, h, ch) ==
    [readable |-> r, wellformed |-> wf, width |-> w, height |-> h, children |-> ch]
Path(stem, ext) == [stem |-> stem, ext |-> ext]

(* the path p exists on the disk d *)
OnDisk(d, p) == \E q \in DOMAIN d : q = p

(* open() or the XML parser raises for svg_path *)
ParseFails(d, p) ==
    IF OnDisk(d, p) THEN ~(d[p].readable /\ d[p].wellformed) ELSE TRUE

(* get_svg_dimensions(svg_path) raises inside its try block *)
DimsRaises(d, p) ==
    IF ParseFails(d, p) THEN TRUE
    ELSE LET width  == StripUnits(RootGet(d[p].width))
             height == StripUnits(RootGet(d[p].height))
         IN  (width # <<>> /\ FloatRaises(width)) \/ (height # <<>> /\ FloatRaises(height))

(* get_svg_dimensions with an empty stripped string read as 0.0 *)
get_svg_dimensions_empty_is_zero(d, p) ==
    IF DimsRaises(d, p) THEN <<F100, F100>>
    ELSE LET width  == StripUnits(RootGet(d[p].width))
             height == StripUnits(RootGet(d[p].height))
         IN  << IF width # <<>> THEN float(width) ELSE FZero,
                IF height # <<>> THEN float(height) ELSE FZero >>

(* get_svg_dimensions with a ValueError caught per axis *)
get_svg_dimensions_per_axis(d, p) ==
    IF ParseFails(d, p) THEN <<F100, F100>>
    ELSE LET width  == StripUnits(RootGet(d[p].width))
             height == StripUnits(RootGet(d[p].height))
         IN  << IF width # <<>> /\ ~FloatRaises(width) THEN float(width) ELSE F100,
                IF height # <<>> /\ ~FloatRaises(height) THEN float(height) ELSE F100 >>

get_svg_dimensions(d, p) ==
    IF DimsRaises(d, p) THEN <<F100, F100>>
    ELSE LET width  == StripUnits(RootGet(d[p].width))
             height == StripUnits(RootGet(d[p].height))
         IN  << IF width # <<>> THEN float(width) ELSE F100,
                IF height # <<>> THEN float(height) ELSE F100 >>

(* ---------------------------------------------------------------------- *)
(* get_svg_dimensions called on one file (SpecDims)                        *)
(* ---------------------------------------------------------------------- *)
NonePath == Path("None", "")

(* the try block returns *)
DimsReturn ==
    /\ dpc = "call"
    /\ ~DimsRaises(disk, svg_path)
    /\ dims' = get_svg_dimensions(disk, svg_path)
    /\ dpc' = "returned"
    /\ UNCHANGED <<disk, svg_path, svg_files, output_file, gridVars, mainVars>>

(* the except block returns the defaults *)
DimsExcept ==
    /\ dpc = "call"
    /\ DimsRaises(disk, svg_path)
    /\ dims' = get_svg_dimensions(disk, svg_path)
    /\ dpc' = "returned"
    /\ UNCHANGED <<disk, svg_path, svg_files, output_file, gridVars, mainVars>>

(* ---------------------------------------------------------------------- *)
(* create_svg_grid                                                         *)
(* ---------------------------------------------------------------------- *)
margin == 10

total_width == cols * cell_width + (cols - 1) * padding
total_height == rows * cell_height + (rows - 1) * padding

(* the row taken as i div rows *)
CellRow_by_rows(i) == i \div rows

(* row, col, x, y of the cell of index i *)
CellRow(i) == i \div cols
CellCol(i) == i % cols
CellX(i) == CellCol(i) * (cell_width + padding)
CellY(i) == CellRow(i) * (cell_height + padding)

(* scale_x / scale_y: (cell - 2 * margin) / orig if orig > 0 else 1 *)
AxisScale(cell, orig) ==
    IF ~FIsZero(orig) THEN FDiv(FromInt(cell - 2 * margin), orig) ELSE FromInt(1)
(* the scale taken as max(scale_x, scale_y) *)
Scale_max(orig_width, orig_height) ==
    LET sx == AxisScale(cell_width, orig_width)
        sy == AxisScale(cell_height, orig_height)
    IN  IF FCmp(sy, sx) > 0 THEN sy ELSE sx

(* scale = min(scale_x, scale_y) *)
Scale(orig_width, orig_height) ==
    FMin(AxisScale(cell_width, orig_width), AxisScale(cell_height, orig_height))

(* The elements appended for a loaded input.  The translate offsets       *)
(* x + (cell_width - scaled_width) / 2 are kept as their operands; the    *)
(* text anchors x + cell_width / 2 are kept doubled.                      *)
NormalCell(i, p) ==
    LET orig  == get_svg_dimensions(disk, p)
        s     == Scale(orig[1], orig[2])
    IN  << [kind |-> "cellrect", x |-> CellX(i), y |-> CellY(i),
            width |-> cell_width, height |-> cell_height, fill |-> "white"],
           [kind |-> "g", x |-> CellX(i), y |-> CellY(i),
            orig_width |-> orig[1], orig_height |-> orig[2], scale |-> s,
            scaled_width |-> FMul(orig[1], s), scaled_height |-> FMul(orig[2], s),
            children |-> disk[p].children],
           [kind |-> "label", x2 |-> 2 * CellX(i) + cell_width,
            y |-> CellY(i) + cell_height - 5, filename |-> p] >>

(* The error placeholder. *)
ErrorCell(i) ==
    << [kind |-> "errrect", x |-> CellX(i), y |-> CellY(i),
        width |-> cell_width, height |-> cell_height, fill |-> "#ffcccc"],
       [kind |-> "errtext", x2 |-> 2 * CellX(i) + cell_width,
        y2 |-> 2 * CellY(i) + cell_height, text |-> "Error loading file"] >>

(* lines 51-65: the header and the background *)
G_Begin ==
    /\ gpc = "start"
    /\ svg_content' = << [kind |-> "svg", width |-> total_width, height |-> total_height],
                         [kind |-> "background", width |-> total_width,
                          height |-> total_height] >>
    /\ idx' = 0
    /\ gpc' = "loop"
    /\ UNCHANGED <<disk, dimVars, svg_files, output_file, rows, cols, cell_width,
                   cell_height, padding, io, mainVars>>

(* the capacity test taken as idx > rows * cols *)
G_LoopNext_off_by_one ==
    /\ gpc = "loop"
    /\ idx < Len(svg_files)
    /\ idx <= rows * cols
    /\ gpc' = "open"
    /\ UNCHANGED <<disk, dimVars, svg_files, output_file, rows, cols, cell_width,
                   cell_height, padding, idx, svg_content, io, mainVars>>

(* for idx, svg_file in enumerate(svg_files): the next input is taken *)
G_LoopNext ==
    /\ gpc = "loop"
    /\ idx < Len(svg_files)
    /\ idx < rows * cols
    /\ gpc' = "open"
    /\ UNCHANGED <<disk, dimVars, svg_files, output_file, rows, cols, cell_width,
                   cell_height, padding, idx, svg_content, io, mainVars>>

(* the list is exhausted or idx >= rows * cols: the loop ends and the     *)
(* closing tag is added                                                   *)
G_LoopEnd ==
    /\ gpc = "loop"
    /\ (idx >= Len(svg_files) \/ idx >= rows * cols)
    /\ svg_content' = Append(svg_content, [kind |-> "endsvg"])
    /\ gpc' = "write"
    /\ UNCHANGED <<disk, dimVars, svg_files, output_file, rows, cols, cell_width,
                   cell_height, padding, idx, io, mainVars>>

(* with open(svg_file) as f: svg_data = f.read() *)
G_Open ==
    /\ gpc = "open"
    /\ io' = Append(io, [op |-> "read", path |-> svg_files[idx + 1], idx |-> idx])
    /\ gpc' = IF OnDisk(disk, svg_files[idx + 1]) /\ disk[svg_files[idx + 1]].readable
              THEN "parse" ELSE "except"
    /\ UNCHANGED <<disk, dimVars, svg_files, output_file, rows, cols, cell_width,
                   cell_height, padding, idx, svg_content, mainVars>>

(* tree = ET.fromstring(svg_data) *)
G_Parse ==
    /\ gpc = "parse"
    /\ gpc' = IF disk[svg_files[idx + 1]].wellformed THEN "cell" ELSE "except"
    /\ UNCHANGED <<disk, dimVars, svg_files, output_file, rows, cols, cell_width,
                   cell_height, padding, idx, svg_content, io, mainVars>>

(* the cell appended and the document written out as it grows *)
G_Cell_flushes ==
    /\ gpc = "cell"
    /\ io' = io \o << [op |-> "read", path |-> svg_files[idx + 1], idx |-> idx],
                      [op |-> "write", path |-> output_file,
                       content |-> svg_content \o NormalCell(idx, svg_files[idx + 1])] >>
    /\ svg_content' = svg_content \o NormalCell(idx, svg_files[idx + 1])
    /\ idx' = idx + 1
    /\ gpc' = "loop"
    /\ UNCHANGED <<disk, dimVars, svg_files, output_file, rows, cols, cell_width,
                   cell_height, padding, mainVars>>

(* lines 87-116: the dimensions are probed (the file is read again) and   *)
(* the cell is appended                                                   *)
G_Cell ==
    /\ gpc = "cell"
    /\ io' = Append(io, [op |-> "read", path |-> svg_files[idx + 1], idx |-> idx])
    /\ svg_content' = svg_content \o NormalCell(idx, svg_files[idx + 1])
    /\ idx' = idx + 1
    /\ gpc' = "loop"
    /\ UNCHANGED <<disk, dimVars, svg_files, output_file, rows, cols, cell_width,
                   cell_height, padding, mainVars>>

(* the except block ending the loop: one failure aborts the placement *)
G_Except_aborts ==
    /\ gpc = "except"
    /\ svg_content' = svg_content \o ErrorCell(idx)
    /\ idx' = Len(svg_files)
    /\ gpc' = "loop"
    /\ UNCHANGED <<disk, dimVars, svg_files, output_file, rows, cols, cell_width,
                   cell_height, padding, io, mainVars>>

(* lines 118-122: the except block *)
G_Except ==
    /\ gpc = "except"
    /\ svg_content' = svg_content \o ErrorCell(idx)
    /\ idx' = idx + 1
    /\ gpc' = "loop"
    /\ UNCHANGED <<disk, dimVars, svg_files, output_file, rows, cols, cell_width,
                   cell_height, padding, io, mainVars>>

(* with open(output_file, 'w') as f: f.write(svg_content) *)
G_Write ==
    /\ gpc = "write"
    /\ io' = Append(io, [op |-> "write", path |-> output_file, content |-> svg_content])
    /\ gpc' = "done"
    /\ UNCHANGED <<disk, dimVars, svg_files, output_file, rows, cols, cell_width,
                   cell_height, padding, idx, svg_content, mainVars>>

create_svg_grid ==
    \/ G_Begin \/ G_LoopNext \/ G_LoopEnd \/ G_Open \/ G_Parse
    \/ G_Cell \/ G_Except \/ G_Write

(* ---------------------------------------------------------------------- *)
(* main                                                                    *)
(* ---------------------------------------------------------------------- *)
GridCapacity == 8
MainRows == 2
MainCols == 4
DefaultCellWidth == 200
DefaultCellHeight == 200
DefaultPadding == 10
DefaultOutput == Path("grid_output", ".svg")

endswith_svg(arg) == arg.ext = ".svg"
exists(arg) == OnDisk(disk, arg)
IsNotNone(f) == f # NonePath

(* if len(sys.argv) < 2: usage, sys.exit(1) *)
M_Usage ==
    /\ mpc = "start"
    /\ Len(argv) < 1
    /\ exit_status' = 1
    /\ mpc' = "exit"
    /\ UNCHANGED <<disk, dimVars, svg_files, output_file, gridVars, argv, arg_i>>

(* svg_files = []; output_file = "grid_output.svg" *)
M_Begin ==
    /\ mpc = "start"
    /\ Len(argv) >= 1
    /\ svg_files' = <<>>
    /\ output_file' = DefaultOutput
    /\ arg_i' = 1
    /\ mpc' = "args"
    /\ UNCHANGED <<disk, dimVars, gridVars, argv, exit_status>>

(* an argument ending in .svg that exists: svg_files.append(arg) *)
M_ArgInput ==
    /\ mpc = "args"
    /\ arg_i <= Len(argv)
    /\ endswith_svg(argv[arg_i])
    /\ exists(argv[arg_i])
    /\ svg_files' = Append(svg_files, argv[arg_i])
    /\ arg_i' = arg_i + 1
    /\ UNCHANGED <<disk, dimVars, output_file, gridVars, argv, mpc, exit_status>>

(* the output file taken only if len(svg_files) > 8 *)
M_ArgMissing_strict ==
    /\ mpc = "args"
    /\ arg_i <= Len(argv)
    /\ endswith_svg(argv[arg_i])
    /\ ~exists(argv[arg_i])
    /\ output_file' = IF Len(svg_files) > GridCapacity THEN argv[arg_i] ELSE output_file
    /\ arg_i' = arg_i + 1
    /\ UNCHANGED <<disk, dimVars, svg_files, gridVars, argv, mpc, exit_status>>

(* an argument ending in .svg that does not exist: the output file, if    *)
(* len(svg_files) >= 8                                                    *)
M_ArgMissing ==
    /\ mpc = "args"
    /\ arg_i <= Len(argv)
    /\ endswith_svg(argv[arg_i])
    /\ ~exists(argv[arg_i])
    /\ output_file' = IF Len(svg_files) >= GridCapacity THEN argv[arg_i] ELSE output_file
    /\ arg_i' = arg_i + 1
    /\ UNCHANGED <<disk, dimVars, svg_files, gridVars, argv, mpc, exit_status>>

(* any other argument is skipped with a warning *)
M_ArgSkip ==
    /\ mpc = "args"
    /\ arg_i <= Len(argv)
    /\ ~endswith_svg(argv[arg_i])
    /\ arg_i' = arg_i + 1
    /\ UNCHANGED <<disk, dimVars, svg_files, output_file, gridVars, argv, mpc, exit_status>>

(* the output file taken as the first file beyond the 8 kept *)
M_Trim_first_excess ==
    /\ mpc = "args"
    /\ arg_i > Len(argv)
    /\ IF Len(svg_files) > GridCapacity
       THEN /\ output_file' = svg_files[GridCapacity + 1]
            /\ svg_files' = SubSeq(svg_files, 1, GridCapacity)
       ELSE UNCHANGED <<output_file, svg_files>>
    /\ mpc' = "pad"
    /\ UNCHANGED <<disk, dimVars, gridVars, argv, arg_i, exit_status>>

(* if len(svg_files) > 8: output_file = svg_files[-1]; svg_files = svg_files[:8] *)
M_Trim ==
    /\ mpc = "args"
    /\ arg_i > Len(argv)
    /\ IF Len(svg_files) > GridCapacity
       THEN /\ output_file' = svg_files[Len(svg_files)]
            /\ svg_files' = SubSeq(svg_files, 1, GridCapacity)
       ELSE UNCHANGED <<output_file, svg_files>>
    /\ mpc' = "pad"
    /\ UNCHANGED <<disk, dimVars, gridVars, argv, arg_i, exit_status>>

(* lines 167-174: fewer than 8 files are padded with None, more than 8    *)
(* are cut to the first 8                                                 *)
M_Pad ==
    /\ mpc = "pad"
    /\ svg_files' =
          IF Len(svg_files) < GridCapacity
          THEN [i \in 1..GridCapacity |->
                   IF i <= Len(svg_files) THEN svg_files[i] ELSE NonePath]
          ELSE IF Len(svg_files) > GridCapacity THEN SubSeq(svg_files, 1, GridCapacity)
          ELSE svg_files
    /\ mpc' = "filter"
    /\ UNCHANGED <<disk, dimVars, output_file, gridVars, argv, arg_i, exit_status>>

(* the None placeholders left in the list *)
M_Filter_keeps_none ==
    /\ mpc = "filter"
    /\ svg_files' = svg_files
    /\ mpc' = "check"
    /\ UNCHANGED <<disk, dimVars, output_file, gridVars, argv, arg_i, exit_status>>

(* svg_files = [f for f in svg_files if f is not None] *)
M_Filter ==
    /\ mpc = "filter"
    /\ svg_files' = SelectSeq(svg_files, IsNotNone)
    /\ mpc' = "check"
    /\ UNCHANGED <<disk, dimVars, output_file, gridVars, argv, arg_i, exit_status>>

(* if not svg_files: sys.exit(1) *)
M_NoFiles ==
    /\ mpc = "check"
    /\ svg_files = <<>>
    /\ exit_status' = 1
    /\ mpc' = "exit"
    /\ UNCHANGED <<disk, dimVars, svg_files, output_file, gridVars, argv, arg_i>>

(* create_svg_grid(svg_files, output_file, rows=2, cols=4) is entered *)
M_Call ==
    /\ mpc = "check"
    /\ svg_files # <<>>
    /\ rows' = MainRows
    /\ cols' = MainCols
    /\ cell_width' = DefaultCellWidth
    /\ cell_height' = DefaultCellHeight
    /\ padding' = DefaultPadding
    /\ gpc' = "start"
    /\ mpc' = "grid"
    /\ UNCHANGED <<disk, dimVars, svg_files, output_file, idx, svg_content, io,
                   argv, arg_i, exit_status>>

(* create_svg_grid has returned; main returns *)
M_Done ==
    /\ mpc = "grid"
    /\ gpc = "done"
    /\ exit_status' = 0
    /\ mpc' = "done"
    /\ UNCHANGED <<disk, dimVars, svg_files, output_file, gridVars, argv, arg_i>>

main ==
    \/ M_Usage \/ M_Begin \/ M_ArgInput \/ M_ArgMissing \/ M_ArgSkip \/ M_Trim
    \/ M_Pad \/ M_Filter \/ M_NoFiles \/ M_Call \/ M_Done

(* ---------------------------------------------------------------------- *)
(* initial states and specifications                                       *)
(* ---------------------------------------------------------------------- *)
SeqsUpTo(S, n) == UNION {[1..k -> S] : k \in 0..n}

IdleDims == svg_path = NonePath /\ dims = <<>> /\ dpc = "idle"
IdleGrid ==
    /\ rows = 0 /\ cols = 0 /\ cell_width = 0 /\ cell_height = 0 /\ padding = 0
    /\ idx = 0 /\ svg_content = <<>> /\ gpc = "idle" /\ io = <<>>
IdleMain == argv = <<>> /\ arg_i = 0 /\ mpc = "idle" /\ exit_status = -1

(* SpecDims: one file, its width drawn from every string over AttrChars   *)
(* up to MaxLen, its height from AttrSamples, or the two exchanged; or a   *)
(* file that cannot be read or parsed, or no file at all.                  *)
AttrChars == {"0", "1", ".", "p", "-", "sup2"}
AttrStrings == SeqsUpTo(AttrChars, MaxLen)
AttrSamples ==
    { NoAttr, Attr(<<"2", "5", ".", "5", "p", "x">>), Attr(<<"0">>),
      Attr(<<"1", ".", "2", ".", "3">>) }
ProbePath == Path("probe", ".svg")
ProbeFiles ==
    { File(TRUE, TRUE, a, b, <<>>) : a \in {NoAttr} \cup {Attr(s) : s \in AttrStrings},
                                     b \in AttrSamples }
    \cup { File(TRUE, TRUE, b, a, <<>>) : a \in {NoAttr} \cup {Attr(s) : s \in AttrStrings},
                                          b \in AttrSamples }
    \cup { File(FALSE, FALSE, NoAttr, NoAttr, <<>>), File(TRUE, FALSE, NoAttr, NoAttr, <<>>) }

InitDims ==
    /\ disk \in {<<>>} \cup {ProbePath :> f : f \in ProbeFiles}
    /\ svg_path = ProbePath
    /\ dims = <<>>
    /\ dpc = "call"
    /\ svg_files = <<>>
    /\ output_file = NonePath
    /\ IdleGrid
    /\ IdleMain
NextDims == DimsReturn \/ DimsExcept
SpecDims == InitDims /\ [][NextDims]_vars

(* SpecGrid: create_svg_grid on a fixed disk, with every list of up to    *)
(* MaxFiles of its paths (one of them not on the disk), grids of 1 or     *)
(* MaxRows rows and 1 or MaxCols columns, and three choices of cell size  *)
(* and padding.                                                           *)
GridDisk ==
    (Path("wide", ".svg") :>
        File(TRUE, TRUE, Attr(<<"1", "6", "9">>), Attr(<<"1", "0", "0", "p", "x">>), <<"c1", "c2">>))
    @@ (Path("zero", ".svg") :>
        File(TRUE, TRUE, Attr(<<"0">>), Attr(<<"3", "3", ".", "3">>), <<"c3">>))
    @@ (Path("broken", ".svg") :> File(TRUE, FALSE, NoAttr, NoAttr, <<>>))
GridPaths == DOMAIN GridDisk \cup {Path("ghost", ".svg")}
Geometries == {<<200, 200, 10>>, <<120, 90, 0>>, <<50, 70, 3>>}

InitGrid ==
    /\ disk = GridDisk
    /\ svg_files \in SeqsUpTo(GridPaths, MaxFiles)
    /\ output_file = Path("out", ".svg")
    /\ rows \in {1, MaxRows}
    /\ cols \in {1, MaxCols}
    /\ \E g \in Geometries : cell_width = g[1] /\ cell_height = g[2] /\ padding = g[3]
    /\ idx = 0
    /\ svg_content = <<>>
    /\ gpc = "start"
    /\ io = <<>>
    /\ IdleDims
    /\ IdleMain
NextGrid == create_svg_grid
SpecGrid == InitGrid /\ [][NextGrid]_vars

(* SpecMain: main on every argument list of up to MaxArgs arguments, each *)
(* an existing .svg file, a .svg path that does not exist, or a path       *)
(* without the suffix, at most MaxExtra of the latter two; the first       *)
(* existing file is loadable, the others are not well-formed.              *)
ArgNames == <<"a1", "a2", "a3", "a4", "a5", "a6", "a7", "a8", "a9", "a10", "a11", "a12">>
ArgKinds == {"file", "missing", "other"}
(* the lists of n kinds with at most e that are not "file" *)
RECURSIVE KindLists(_, _)
KindLists(n, e) ==
    IF n = 0 THEN {<<>>}
    ELSE {Append(ks, "file") : ks \in KindLists(n - 1, e)}
         \cup (IF e = 0 THEN {}
               ELSE {Append(ks, k) : ks \in KindLists(n - 1, e - 1),
                                     k \in ArgKinds \ {"file"}})
ArgLists == UNION {KindLists(n, MaxExtra) : n \in 0..MaxArgs}
ArgPath(ks, i) == Path(ArgNames[i], IF ks[i] = "other" THEN ".txt" ELSE ".svg")
MainFile(ks, i) ==
    IF \A j \in 1..(i - 1) : ks[j] # "file"
    THEN File(TRUE, TRUE, Attr(<<"5", "0">>), NoAttr, <<ArgNames[i]>>)
    ELSE File(TRUE, FALSE, NoAttr, NoAttr, <<>>)

InitMain ==
    \E ks \in ArgLists :
        /\ argv = [i \in 1..Len(ks) |-> ArgPath(ks, i)]
        /\ disk = [p \in {ArgPath(ks, i) : i \in {j \in 1..Len(ks) : ks[j] = "file"}} |->
                      MainFile(ks, CHOOSE i \in 1..Len(ks) : ArgPath(ks, i) = p)]
        /\ arg_i = 0
        /\ mpc = "start"
        /\ exit_status = -1
        /\ svg_files = <<>>
        /\ output_file = NonePath
        /\ IdleGrid
        /\ IdleDims
NextMain == main \/ create_svg_grid
SpecMain == InitMain /\ [][NextMain]_vars

Spec == SpecGrid

(* ---------------------------------------------------------------------- *)
(* properties of get_svg_dimensions (SpecDims)                             *)
(* ---------------------------------------------------------------------- *)
Returned == dpc = "returned"
Parsed == ~ParseFails(disk, svg_path)
(* the attribute of an axis of the probed file: 1 is width, 2 is height *)
AxisAttr(axis) == IF axis = 1 THEN disk[svg_path].width ELSE disk[svg_path].height
(* the characters of the attribute that survive the unit stripping *)
KeptChars(axis) ==
    LET raw == IF AxisAttr(axis).present THEN AxisAttr(axis).value ELSE <<"1", "0", "0">>
    IN  SelectSeq(raw, LAMBDA x : x \in DecimalDigits \cup {"sup2", "."})
CountOf(s, S) == Cardinality({i \in 1..Len(s) : s[i] \in S})
(* a non-empty stripped string that is no float literal *)
BadLiteral(s) ==
    s # <<>> /\ (CountOf(s, {"."}) > 1 \/ CountOf(s, DecimalDigits) = 0
                 \/ CountOf(s, {"sup2"}) > 0)
(* a stripped string that is a literal of value zero *)
ZeroLiteral(s) ==
    CountOf(s, {"0"}) >= 1 /\ CountOf(s, {"."}) <= 1 /\ CountOf(s, {"0", "."}) = Len(s)
Raised == ~Parsed \/ BadLiteral(KeptChars(1)) \/ BadLiteral(KeptChars(2))
(* a finite binary64 value that is zero or positive and normal *)
IsFiniteFloat(f) ==
    /\ Len(f.m) = NLimbs
    /\ \A i \in 1..NLimbs : f.m[i] \in 0..(Base - 1)
    /\ \/ BigIsZero(f.m) /\ f.e = 0
       \/ BigBitLen(f.m) = MantBits

(* C4, as claimed: get_svg_dimensions always returns two finite positive  *)
(* numbers.                                                               *)
C4_AlwaysPositive ==
    Returned =>
        \A axis \in {1, 2} : IsFiniteFloat(dims[axis]) /\ ~FIsZero(dims[axis])

(* C4, amended: get_svg_dimensions always returns two numbers that are    *)
(* never negative, and finite as long as the stripped strings stay within *)
(* the range of a double (the strings of up to MaxLen characters here     *)
(* do); a returned number is 0.0 exactly when the file parses, neither    *)
(* stripped string is rejected by float(), and the stripped string of     *)
(* that axis is a literal of value zero; otherwise it is positive.        *)
C4_PositiveUnlessZeroLiteral ==
    Returned =>
        \A axis \in {1, 2} :
            /\ IsFiniteFloat(dims[axis])
            /\ FIsZero(dims[axis]) <=> (~Raised /\ ZeroLiteral(KeptChars(axis)))

(* C4 witness: a file with width "0" has been probed and 0.0 returned *)
C4_Witness ==
    /\ Returned
    /\ Parsed
    /\ disk[svg_path].width = Attr(<<"0">>)
    /\ FIsZero(dims[1])
    /\ ~FIsZero(dims[2])

(* C5, as claimed: if the root lacks the width or the height attribute,   *)
(* or one of them carries a value that is no plain number, the result is  *)
(* exactly (100.0, 100.0).                                                *)
Malformed(a) == a.present /\ (a.value = <<>> \/ FloatRaises(a.value))
GridDone == gpc = "done"
GridRunning == gpc \notin {"idle", "done"}
Capacity == rows * cols
(* the number of inputs that get a cell *)
Placed == IF Len(svg_files) < Capacity THEN Len(svg_files) ELSE Capacity
(* the input can be read and parsed *)
Loads(p) == \E q \in DOMAIN disk : q = p /\ disk[q].readable /\ disk[q].wellformed
IsWrite(e) == e.op = "write"
IsRead(e) == e.op = "read"
Writes == SelectSeq(io, IsWrite)
(* the document written to the output path *)
Doc == Writes[1].content
IsRect(e) == e.kind \in {"cellrect", "errrect"}
IsCellElement(e) == e.kind \in {"cellrect", "errrect", "g", "label", "errtext"}
OriginX(i) == (i % cols) * (cell_width + padding)
OriginY(i) == (i \div cols) * (cell_height + padding)
(* the element e is drawn in the cell of index i *)
AtCell(e, i) ==
    CASE e.kind \in {"cellrect", "errrect", "g"} ->
            e.x = OriginX(i) /\ e.y = OriginY(i)
      [] e.kind = "label" ->
            e.x2 = 2 * OriginX(i) + cell_width /\ e.y = OriginY(i) + cell_height - 5
      [] e.kind = "errtext" ->
            e.x2 = 2 * OriginX(i) + cell_width /\ e.y2 = 2 * OriginY(i) + cell_height
      [] OTHER -> FALSE
ElemsAt(doc, i) == SelectSeq(doc, LAMBDA e : AtCell(e, i))
(* the run is never stuck before its end: in every position the step of  *)
(* that position is defined, and a step inside the loop body is on an     *)
(* input of the list that has a cell                                      *)
NeverStuck ==
    /\ gpc \in {"idle", "start", "loop", "open", "parse", "cell", "except", "write", "done"}
    /\ gpc \in {"open", "parse", "cell", "except"} => idx < Placed
    /\ gpc \in {"parse", "cell"} =>
          \E q \in DOMAIN disk : q = svg_files[idx + 1] /\ disk[q].readable
    /\ gpc = "cell" => Loads(svg_files[idx + 1])
    /\ gpc \in {"loop", "write", "done"} => idx <= Placed

(* C1: whatever subset of the inputs fails to be read or parsed, the run  *)
(* goes on to write the output once; a failing input at index i below     *)
(* rows*cols gives exactly the error placeholder (light-red rectangle,    *)
(* 'Error loading file' text) in cell i and nothing else there, and every *)
(* other input gives its normal cell (white rectangle, group with its own *)
(* children, label with its own file name) at its own index.              *)
C1_FailuresStayInTheirCell ==
    /\ NeverStuck
    /\ GridDone =>
        /\ Len(Writes) = 1
        /\ \A i \in 0..(Placed - 1) :
              LET p  == svg_files[i + 1]
                  es == ElemsAt(Doc, i)
              IN  IF Loads(p)
                  THEN /\ Len(es) = 3
                       /\ es[1].kind = "cellrect" /\ es[1].fill = "white"
                       /\ es[2].kind = "g" /\ es[2].children = disk[p].children
                       /\ es[3].kind = "label" /\ es[3].filename = p
                  ELSE /\ Len(es) = 2
                       /\ es[1].kind = "errrect" /\ es[1].fill = "#ffcccc"
                       /\ es[2].kind = "errtext" /\ es[2].text = "Error loading file"

(* C1 witness: a finished run in which a failing input was placed before  *)
(* a loading one                                                          *)
C1_Witness ==
    /\ GridDone
    /\ \E i, j \in 0..(Placed - 1) :
          i < j /\ ~Loads(svg_files[i + 1]) /\ Loads(svg_files[j + 1])

(* C3: for n inputs exactly min(n, rows*cols) cells get content: input i  *)
(* is drawn in cell i (row i div cols, column i mod cols) in input order, *)
(* the cells from n up to rows*cols get no element at all, inputs at      *)
(* index >= rows*cols are never read, and the run is never stuck on a     *)
(* length mismatch.                                                       *)
C3_ExactlyMinCellsInOrder ==
    /\ NeverStuck
    /\ \A k \in 1..Len(io) :
          IsRead(io[k]) => io[k].idx < Placed /\ io[k].path = svg_files[io[k].idx + 1]
    /\ GridDone =>
        /\ Len(SelectSeq(Doc, IsRect)) = Placed
        /\ \A i \in 0..(Placed - 1) :
              /\ AtCell(SelectSeq(Doc, IsRect)[i + 1], i)
              /\ \E k \in 1..Len(io) : IsRead(io[k]) /\ io[k].idx = i
              /\ Loads(svg_files[i + 1]) =>
                    \E k \in 1..Len(Doc) :
                        /\ Doc[k].kind = "label"
                        /\ AtCell(Doc[k], i)
                        /\ Doc[k].filename = svg_files[i + 1]
        /\ \A i \in Placed..(Capacity - 1) : ElemsAt(Doc, i) = <<>>
        /\ \A k \in 1..Len(Doc) :
              IsCellElement(Doc[k]) => \E i \in 0..(Placed - 1) : AtCell(Doc[k], i)

(* C3 witness: a finished run that was given more inputs than cells *)
C3_Witness ==
    /\ GridDone
    /\ Capacity >= 2
    /\ Len(svg_files) > Capacity
    /\ Len(SelectSeq(Doc, IsRect)) = Capacity

(* C9: the output path is written at most once, and exactly once in a     *)
(* finished run; the write is the last file operation (no input is read   *)
(* after it) and what it writes is the complete document: header first,   *)
(* closing tag last, one cell for every placed input, each read before.   *)
C9_WrittenOnceWhenComplete ==
    /\ Len(Writes) <= 1
    /\ GridDone => Len(Writes) = 1
    /\ \A j \in 1..Len(io) :
          IsWrite(io[j]) =>
              /\ j = Len(io)
              /\ io[j].path = output_file
              /\ io[j].content = svg_content
              /\ io[j].content[1].kind = "svg"
              /\ io[j].content[Len(io[j].content)].kind = "endsvg"
              /\ Len(SelectSeq(io[j].content, IsRect)) = Placed
              /\ \A i \in 0..(Placed - 1) :
                    \E k \in 1..(j - 1) : IsRead(io[k]) /\ io[k].idx = i

(* C9 witness: a finished run that placed a loaded cell and a placeholder *)
C9_Witness ==
    /\ GridDone
    /\ Len(Writes) = 1
    /\ \E k \in 1..Len(Doc) : Doc[k].kind = "g"
    /\ \E k \in 1..Len(Doc) : Doc[k].kind = "errrect"

(* C10: every cell i below rows*cols has its top-left corner at           *)
(* ((i mod cols)*(W+padding), (i div cols)*(H+padding)) and lies inside   *)
(* the canvas of size (cols*W + (cols-1)*padding, rows*H + (rows-1)*      *)
(* padding); the last cell's bottom-right corner is the canvas corner;    *)
(* two distinct cells never overlap in their interiors; the rectangles    *)
(* drawn are these cells in order.                                        *)
C10_CellsTileTheCanvas ==
    gpc # "idle" =>
        /\ total_width = cols * cell_width + (cols - 1) * padding
        /\ total_height = rows * cell_height + (rows - 1) * padding
        /\ \A i \in 0..(Capacity - 1) :
              /\ CellX(i) = (i % cols) * (cell_width + padding)
              /\ CellY(i) = (i \div cols) * (cell_height + padding)
              /\ CellX(i) >= 0 /\ CellX(i) + cell_width <= total_width
              /\ CellY(i) >= 0 /\ CellY(i) + cell_height <= total_height
        /\ CellX(Capacity - 1) + cell_width = total_width
        /\ CellY(Capacity - 1) + cell_height = total_height
        /\ \A i, j \in 0..(Capacity - 1) :
              i # j =>
                  \/ CellX(i) + cell_width <= CellX(j)
                  \/ CellX(j) + cell_width <= CellX(i)
                  \/ CellY(i) + cell_height <= CellY(j)
                  \/ CellY(j) + cell_height <= CellY(i)
        /\ \A k \in 1..Len(SelectSeq(svg_content, IsRect)) :
              LET r == SelectSeq(svg_content, IsRect)[k]
              IN  /\ r.x = CellX(k - 1) /\ r.y = CellY(k - 1)
                  /\ r.width = cell_width /\ r.height = cell_height
                  /\ r.x + r.width <= svg_content[1].width
                  /\ r.y + r.height <= svg_content[1].height

(* C10 witness: a finished run on a padded grid of several non-square     *)
(* cells whose last cell has been drawn                                   *)
C10_Witness ==
    /\ GridDone
    /\ Capacity >= 2
    /\ padding > 0
    /\ cell_width # cell_height
    /\ Len(SelectSeq(svg_content, IsRect)) = Capacity

(* ---------------------------------------------------------------------- *)
(* the scale of a loaded cell (SpecGrid)                                   *)
(* ---------------------------------------------------------------------- *)
IsGroup(e) == e.kind = "g"
Groups == SelectSeq(svg_content, IsGroup)
(* the inset extent of the cell on each axis, W - 2m and H - 2m *)
InsetWidth == FromInt(cell_width - 2 * margin)
InsetHeight == FromInt(cell_height - 2 * margin)
FLe(a, b) == FCmp(a, b) <= 0
(* min((W-2m)/w, (H-2m)/h) in binary64, an axis of extent 0 being left out *)
RatioMin(w, h) ==
    IF FIsZero(w) THEN FDiv(InsetHeight, h)
    ELSE IF FIsZero(h) THEN FDiv(InsetWidth, w)
    ELSE FMin(FDiv(InsetWidth, w), FDiv(InsetHeight, h))
(* min(sx, sy) where an axis of extent 0 contributes 1 instead of a ratio *)
GuardedRatioMin(w, h) ==
    FMin(IF FIsZero(w) THEN FromInt(1) ELSE FDiv(InsetWidth, w),
         IF FIsZero(h) THEN FromInt(1) ELSE FDiv(InsetHeight, h))

(* C6, as claimed: for every loaded input of extracted size (w, h) the    *)
(* scale of its transform equals min((W-2m)/w, (H-2m)/h), the one factor  *)
(* is applied to both axes, and the scaled size (w*scale, h*scale) never  *)
(* exceeds (W-2m, H-2m) on either axis.                                   *)
C6_ScaleIsRatioMinAndFits ==
    \A k \in 1..Len(Groups) :
        LET g == Groups[k]
        IN  /\ (~FIsZero(g.orig_width) \/ ~FIsZero(g.orig_height)) =>
                   g.scale = RatioMin(g.orig_width, g.orig_height)
            /\ g.scaled_width = FMul(g.orig_width, g.scale)
            /\ g.scaled_height = FMul(g.orig_height, g.scale)
            /\ FLe(g.scaled_width, InsetWidth)
            /\ FLe(g.scaled_height, InsetHeight)

(* C6, amended: for every loaded input of extracted size (w, h) the scale *)
(* equals min(sx, sy), where sx is (W-2m)/w if w > 0 and 1 otherwise, and *)
(* sy likewise; the one factor is applied to both axes; and the scaled    *)
(* size, computed in floating point, exceeds (W-2m, H-2m) on neither axis *)
(* by more than one unit in the last place.                               *)
C6_GuardedScaleFitsToOneUlp ==
    \A k \in 1..Len(Groups) :
        LET g == Groups[k]
        IN  /\ g.scale = GuardedRatioMin(g.orig_width, g.orig_height)
            /\ g.scaled_width = FMul(g.orig_width, g.scale)
            /\ g.scaled_height = FMul(g.orig_height, g.scale)
            /\ FLe(g.scaled_width, FNextUp(InsetWidth))
            /\ FLe(g.scaled_height, FNextUp(InsetHeight))

(* C6 witness: a cell of extracted width 169 in a cell of width 200 whose *)
(* scaled width is one unit in the last place above 180                   *)
C6_Witness ==
    \E k \in 1..Len(Groups) :
        /\ Groups[k].orig_width = FromInt(169)
        /\ cell_width = 200
        /\ Groups[k].scaled_width = FNextUp(InsetWidth)

(* ---------------------------------------------------------------------- *)
(* properties of main (SpecMain)                                           *)
(* ---------------------------------------------------------------------- *)
(* an argument that is an existing .svg file / a .svg path not on disk *)
IsInputArg(a) == a.ext = ".svg" /\ \E q \in DOMAIN disk : q = a
IsMissingArg(a) == a.ext = ".svg" /\ ~\E q \in DOMAIN disk : q = a
(* the existing .svg arguments, in argument order *)
Collected == SelectSeq(argv, IsInputArg)
(* how many existing .svg arguments precede position j *)
CollectedBefore(j) == Len(SelectSeq(SubSeq(argv, 1, j - 1), IsInputArg))
(* create_svg_grid has been entered with svg_files and output_file *)
Called == gpc # "idle"
FirstInputs ==
    IF Len(Collected) > GridCapacity THEN SubSeq(Collected, 1, GridCapacity) ELSE Collected

(* C2: when no argument is a .svg path that exists on disk, main never    *)
(* enters create_svg_grid, no file operation is ever made (the output is  *)
(* neither created nor overwritten), and the only way the process ends is *)
(* with exit status 1.                                                    *)
C2_NoInputsNoOutput ==
    Len(Collected) = 0 =>
        /\ ~Called
        /\ io = <<>>
        /\ mpc \in {"start", "args", "pad", "filter", "check", "exit"}
        /\ mpc = "check" => svg_files = <<>>
        /\ mpc = "exit" <=> exit_status = 1
        /\ exit_status \in {-1, 1}

(* C2 witness: arguments were given, none of them an existing .svg file,  *)
(* and the process has exited with status 1                               *)
C2_Witness ==
    /\ Len(argv) >= 2
    /\ Len(Collected) = 0
    /\ \E j \in 1..Len(argv) : IsMissingArg(argv[j])
    /\ mpc = "exit"
    /\ exit_status = 1

(* C7, as claimed: a .svg argument that does not exist is the output path *)
(* of the run if and only if at least 8 existing .svg inputs were         *)
(* collected before it; when no output path is determined this way the    *)
(* output path is grid_output.svg.                                        *)
C7_MissingAfterEightIsOutput ==
    Called =>
        /\ \A j \in 1..Len(argv) :
              IsMissingArg(argv[j]) =>
                  (output_file = argv[j] <=> CollectedBefore(j) >= GridCapacity)
        /\ (~\E j \in 1..Len(argv) :
                IsMissingArg(argv[j]) /\ CollectedBefore(j) >= GridCapacity)
              => output_file = DefaultOutput

(* C7, amended: a .svg argument that does not exist is the output path of *)
(* the run if and only if at least 8 existing .svg inputs were collected  *)
(* before it, no later argument is such a path too, and no more than 8    *)
(* existing .svg arguments were collected in all; a non-existent .svg     *)
(* argument seen earlier changes neither the inputs nor the output path;  *)
(* when more than 8 were collected the output path is the last collected  *)
(* one, and otherwise, with no output path determined, it is              *)
(* grid_output.svg.                                                       *)
C7_LastMissingAfterExactlyEightIsOutput ==
    Called =>
        /\ svg_files = FirstInputs
        /\ \A j \in 1..Len(argv) :
              IsMissingArg(argv[j]) =>
                  (output_file = argv[j] <=>
                      /\ CollectedBefore(j) >= GridCapacity
                      /\ Len(Collected) <= GridCapacity
                      /\ \A k \in (j + 1)..Len(argv) : ~IsMissingArg(argv[k]))
        /\ Len(Collected) > GridCapacity => output_file = Collected[Len(Collected)]
        /\ (/\ Len(Collected) <= GridCapacity
            /\ ~\E j \in 1..Len(argv) :
                  IsMissingArg(argv[j]) /\ CollectedBefore(j) >= GridCapacity)
              => output_file = DefaultOutput

(* C7 witness: create_svg_grid was entered with a non-existent .svg       *)
(* argument as output path, after another such argument that came before  *)
(* 8 inputs were collected was passed over                                *)
C7_Witness ==
    /\ Called
    /\ \E i, j \in 1..Len(argv) :
          /\ i < j
          /\ IsMissingArg(argv[i]) /\ CollectedBefore(i) < GridCapacity
          /\ IsMissingArg(argv[j]) /\ output_file = argv[j]

(* C8, as claimed: when more than 8 existing .svg arguments are           *)
(* collected, the inputs passed on are the first 8 in argument order and  *)
(* the output path is the earliest argument beyond those 8.               *)
C8_EarliestExcessIsOutput ==
    (Called /\ Len(Collected) > GridCapacity) =>
        /\ svg_files = SubSeq(Collected, 1, GridCapacity)
        /\ output_file = Collected[GridCapacity + 1]

(* C8, amended: when more than 8 existing .svg arguments are collected,   *)
(* the inputs passed on are the first 8 in argument order and the output  *)
(* path is the last collected argument.                                   *)
C8_LastCollectedIsOutput ==
    (Called /\ Len(Collected) > GridCapacity) =>
        /\ svg_files = SubSeq(Collected, 1, GridCapacity)
        /\ output_file = Collected[Len(Collected)]

(* C8 witness: 10 existing .svg arguments were collected and the tenth,   *)
(* not the ninth, is the output path                                      *)
C8_Witness ==
    /\ Called
    /\ Len(Collected) >= GridCapacity + 2
    /\ output_file = Collected[Len(Collected)]
    /\ output_file # Collected[GridCapacity + 1]
====
